---- MODULE Spec2Model ----
(***************************************************************************)
(* Crew-flight assignment engine of the airline crew system.               *)
(*                                                                         *)
(* The model follows AssignmentService (src/services/assignment_service.py)*)
(* and the repository methods it calls.  A repository method is taken from *)
(* src/repositories/ when it is defined there and from                     *)
(* src/app/repositories/ otherwise.  The PostgreSQL function               *)
(* check_crew_availability(crew, departure, arrival), which both           *)
(* repositories call, is defined in the database schema and not in the     *)
(* Python sources; it is modelled from section 4.2 of the specification.   *)
(***************************************************************************)
EXTENDS Integers, Sequences, FiniteSets, TLC

VARIABLES
    assignments,    \* table flight_assignments: row id = index in the sequence
    flight_status,  \* flights.status, per flight id
    is_available,   \* crew_members.is_available, per crew member id
    last,           \* the last completed service call and its outcome
    calls,          \* concurrent create requests in flight (check / insert steps)
    probe           \* two time windows and the verdicts of the conflict predicates

vars == <<assignments, flight_status, is_available, last, calls, probe>>

----------------------------------------------------------------------------
(* Bounds *)

MaxRows == 2            \* rows the assignment table may hold
MaxTime == 4            \* latest instant of a probed time window
CapRows == MaxRows + 1  \* rows of the table when the crew cap of a flight is probed

----------------------------------------------------------------------------
(* The fixed part of the database: flights and crew members *)

NULL == "NULL"

Flights == {1, 2, 3}
Callers == {1, 2}

\* the rows of crew_members: two pilots and a flight attendant, and, in the
\* larger crew, a flight engineer
StaffedCrew == {1, 2, 3}
CrewWithEngineer == {1, 2, 3, 4}
Crew == DOMAIN is_available

\* Flight 1 is [1,3], flight 2 is [3,5] (departs at the instant flight 1
\* arrives), flight 3 is [2,4] (overlaps both).
departure_time == <<1, 3, 2>>
arrival_time == <<3, 5, 4>>
crew_required == <<2, 2, 1>>

AssignmentStatus == {"ASSIGNED", "CONFIRMED", "CANCELLED"}
FlightStatus == {"SCHEDULED", "DELAYED", "CANCELLED", "COMPLETED"}

position_name == <<"PILOT", "PILOT", "FLIGHT_ATTENDANT", "FLIGHT_ENGINEER">>
experience_years == <<5, 8, 2, 4>>
certification_level == <<"CAPTAIN", "SENIOR", "JUNIOR", "SENIOR">>

----------------------------------------------------------------------------
(* Time-interval conflict predicates *)

\* a conflict predicate without the clause for a flight inside the other window
is_time_conflict_two_clauses(self_departure, self_arrival, other_departure, other_arrival) ==
    \/ (self_departure <= other_departure /\ other_departure <= self_arrival)
    \/ (self_departure <= other_arrival /\ other_arrival <= self_arrival)

\* Flight.is_time_conflict: chained comparisons, all non-strict
is_time_conflict(self_departure, self_arrival, other_departure, other_arrival) ==
    \/ (self_departure <= other_departure /\ other_departure <= self_arrival)
    \/ (self_departure <= other_arrival /\ other_arrival <= self_arrival)
    \/ (other_departure <= self_departure /\ self_departure <= other_arrival)

\* the three-clause condition of the repository queries
sql_conflict(f_dep, f_arr, dep, arr) ==
    \/ (f_dep <= dep /\ f_arr >= dep)
    \/ (f_dep <= arr /\ f_arr >= arr)
    \/ (f_dep >= dep /\ f_arr <= arr)

\* the contract of section 4.1: half-open intervals intersect
overlaps(aStart, aEnd, bStart, bEnd) == aStart < bEnd /\ bStart < aEnd

FlightsOverlap(f1, f2) ==
    overlaps(departure_time[f1], arrival_time[f1], departure_time[f2], arrival_time[f2])

----------------------------------------------------------------------------
(* Repository reads; table is the content of flight_assignments *)

Rows == DOMAIN assignments

\* AssignmentRepository.get_conflicting_assignments
get_conflicting_assignments(table, crew_member_id, dep, arr) ==
    { i \in DOMAIN table :
        /\ table[i].crew_member_id = crew_member_id
        /\ table[i].status = "ASSIGNED"
        /\ sql_conflict(departure_time[table[i].flight_id],
                        arrival_time[table[i].flight_id], dep, arr) }

\* the database function check_crew_availability(crew, departure, arrival):
\* TRUE iff no ASSIGNED or CONFIRMED assignment of the crew member is on a
\* flight whose window overlaps [departure, arrival)
sql_check_crew_availability(table, crew_member_id, dep, arr) ==
    ~\E i \in DOMAIN table :
        /\ table[i].crew_member_id = crew_member_id
        /\ table[i].status \in {"ASSIGNED", "CONFIRMED"}
        /\ overlaps(departure_time[table[i].flight_id],
                    arrival_time[table[i].flight_id], dep, arr)

\* AssignmentRepository.check_crew_availability(crew, flight): TRUE = free
check_crew_availability(table, crew_member_id, flight_id) ==
    sql_check_crew_availability(table, crew_member_id, departure_time[flight_id],
                                arrival_time[flight_id])

\* AssignmentService._check_schedule_conflicts: TRUE = no conflict
check_schedule_conflicts(table, crew_member_id, dep, arr) ==
    sql_check_crew_availability(table, crew_member_id, dep, arr)

\* AssignmentRepository.find_by_flight_id: only rows with status ASSIGNED
find_by_flight_id(table, flight_id) ==
    { i \in DOMAIN table : table[i].flight_id = flight_id
                           /\ table[i].status = "ASSIGNED" }

\* UniqueConstraint("crew_member_id", "flight_id"): every row counts,
\* whatever its status
unique_crew_flight_assignment(table, flight_id, crew_member_id) ==
    \A i \in DOMAIN table : ~(table[i].flight_id = flight_id
                              /\ table[i].crew_member_id = crew_member_id)

\* a busy subquery that takes rows of every status
get_available_crew_any_status(table, dep, arr) ==
    { c \in Crew :
        /\ is_available[c]
        /\ ~\E i \in DOMAIN table :
              /\ table[i].crew_member_id = c
              /\ sql_conflict(departure_time[table[i].flight_id],
                              arrival_time[table[i].flight_id], dep, arr) }

\* CrewRepository.get_available_crew: flag set and not in the busy subquery
get_available_crew(table, dep, arr) ==
    { c \in Crew :
        /\ is_available[c]
        /\ ~\E i \in DOMAIN table :
              /\ table[i].crew_member_id = c
              /\ table[i].status = "ASSIGNED"
              /\ sql_conflict(departure_time[table[i].flight_id],
                              arrival_time[table[i].flight_id], dep, arr) }

\* AssignmentService.get_available_crew_for_flight
get_available_crew_for_flight(table, flight_id) ==
    LET current_assignments == find_by_flight_id(table, flight_id)
        assigned_crew_ids == { table[i].crew_member_id : i \in
                                 { j \in current_assignments :
                                     table[j].status \in {"ASSIGNED", "CONFIRMED"} } }
    IN  get_available_crew(table, departure_time[flight_id], arrival_time[flight_id])
            \ assigned_crew_ids

\* Flight.assigned_crew_count: the assignments of the flight with status
\* "ASSIGNED"
assigned_crew_count(table, flight_id) ==
    Cardinality({ i \in DOMAIN table : table[i].flight_id = flight_id
                                        /\ table[i].status = "ASSIGNED" })

\* Flight.is_fully_staffed
is_fully_staffed(table, flight_id) ==
    assigned_crew_count(table, flight_id) >= crew_required[flight_id]

\* Flight.staffing_status
staffing_status(table, flight_id) ==
    IF assigned_crew_count(table, flight_id) >= crew_required[flight_id]
    THEN "FULLY_STAFFED"
    ELSE IF assigned_crew_count(table, flight_id) > 0 THEN "PARTIALLY_STAFFED"
    ELSE "NOT_STAFFED"

\* CrewMember.can_be_assigned
can_be_assigned(table, c, flight_departure, flight_arrival) ==
    /\ is_available[c]
    /\ ~\E i \in DOMAIN table :
          /\ table[i].crew_member_id = c
          /\ table[i].status = "ASSIGNED"
          /\ is_time_conflict(departure_time[table[i].flight_id],
                              arrival_time[table[i].flight_id],
                              flight_departure, flight_arrival)

----------------------------------------------------------------------------
(* create_assignment *)

\* an insert that no unique constraint guards
insert_allowed_unguarded(table, flight_id, crew_member_id) == TRUE

\* the insert of AssignmentRepository.create_assignment: db.add + commit
\* under the unique constraint; FALSE = IntegrityError
insert_allowed(table, flight_id, crew_member_id) ==
    unique_crew_flight_assignment(table, flight_id, crew_member_id)

\* AssignmentRepository.create_assignment: "OK" when the row is inserted,
\* "None" when the availability check fails or the insert raises
\* IntegrityError (the service then returns find_by_id(None), i.e. None)
repo_create_outcome(table, flight_id, crew_member_id) ==
    IF ~check_crew_availability(table, crew_member_id, flight_id) THEN "None"
    ELSE IF ~insert_allowed(table, flight_id, crew_member_id) THEN "None"
    ELSE "OK"

\* the service checks without the schedule-conflict check
service_checks_no_conflict(table, flight_id, crew_member_id) ==
    IF ~is_available[crew_member_id] THEN "ValueError: crew unavailable"
    ELSE IF Cardinality(find_by_flight_id(table, flight_id)) >= crew_required[flight_id] * 2
        THEN "ValueError: crew limit"
    ELSE "pass"

\* the checks of AssignmentService.create_assignment that precede the
\* repository call, in the order of the code; "pass" = none raised
service_checks(table, flight_id, crew_member_id) ==
    IF ~is_available[crew_member_id] THEN "ValueError: crew unavailable"
    ELSE IF ~check_schedule_conflicts(table, crew_member_id, departure_time[flight_id],
                                      arrival_time[flight_id])
        THEN "ValueError: schedule conflict"
    ELSE IF Cardinality(find_by_flight_id(table, flight_id)) >= crew_required[flight_id] * 2
        THEN "ValueError: crew limit"
    ELSE "pass"

\* a create that goes to the repository without the checks of the service
create_outcome_unchecked(table, flight_id, crew_member_id) ==
    repo_create_outcome(table, flight_id, crew_member_id)

\* AssignmentService.create_assignment
create_outcome(table, flight_id, crew_member_id) ==
    LET checked == service_checks(table, flight_id, crew_member_id) IN
    IF checked # "pass" THEN checked
    ELSE repo_create_outcome(table, flight_id, crew_member_id)

\* a row that is inserted as CONFIRMED
NewRow_confirmed(flight_id, crew_member_id, notes) ==
    [flight_id |-> flight_id, crew_member_id |-> crew_member_id,
     status |-> "CONFIRMED", notes |-> notes]

\* the row AssignmentRepository.create_assignment builds
NewRow(flight_id, crew_member_id, notes) ==
    [flight_id |-> flight_id, crew_member_id |-> crew_member_id,
     status |-> "ASSIGNED", notes |-> notes]

\* the table after create_assignment(flight, crew)
create_table(table, flight_id, crew_member_id, notes, outcome) ==
    IF outcome = "OK" THEN Append(table, NewRow(flight_id, crew_member_id, notes))
    ELSE table

Call(op, f, c, id, arg, res, created) ==
    [op |-> op, flight_id |-> f, crew_member_id |-> c, id |-> id, arg |-> arg,
     res |-> res, created |-> created]

\* create_assignment(flight, crew) on a table that holds at most max_rows rows
CreateAssignmentWithin(f, c, max_rows) ==
    LET outcome == create_outcome(assignments, f, c) IN
    /\ outcome = "OK" => Len(assignments) < max_rows
    /\ assignments' = create_table(assignments, f, c, NULL, outcome)
    /\ last' = Call("create", f, c, IF outcome = "OK" THEN Len(assignments) + 1 ELSE 0,
                    NULL, outcome, <<>>)
    /\ UNCHANGED <<flight_status, is_available, calls, probe>>

CreateAssignment(f, c) == CreateAssignmentWithin(f, c, MaxRows)

\* assignment_data['status'] = assignment_data.get('status', 'ASSIGNED');
\* NULL: the payload has no 'status' key
assignment_data_status(status) == IF status = NULL THEN "ASSIGNED" ELSE status

\* create_assignment with a payload that may carry a 'status' key: the
\* service keeps the caller's value in assignment_data, the repository builds
\* the row with AssignmentStatus.ASSIGNED and does not read it
CreateAssignmentData(f, c, status) ==
    LET outcome == create_outcome(assignments, f, c) IN
    /\ outcome = "OK" => Len(assignments) < MaxRows
    /\ assignments' = create_table(assignments, f, c, NULL, outcome)
    /\ last' = Call("create", f, c, IF outcome = "OK" THEN Len(assignments) + 1 ELSE 0,
                    assignment_data_status(status), outcome, <<>>)
    /\ UNCHANGED <<flight_status, is_available, calls, probe>>

\* _check_schedule_conflicts when the repository read may raise: the
\* except branch logs and returns False
check_schedule_conflicts_read(table, crew_member_id, dep, arr, read_ok) ==
    IF read_ok THEN check_schedule_conflicts(table, crew_member_id, dep, arr)
    ELSE FALSE

\* AssignmentRepository.check_crew_availability when the query may raise
\* SQLAlchemyError: the except branch logs and returns False
check_crew_availability_read(table, crew_member_id, flight_id, read_ok) ==
    IF read_ok THEN check_crew_availability(table, crew_member_id, flight_id)
    ELSE FALSE

\* create_assignment with the two availability reads succeeding or raising
create_outcome_read(table, flight_id, crew_member_id, service_read_ok, repo_read_ok) ==
    IF ~is_available[crew_member_id] THEN "ValueError: crew unavailable"
    ELSE IF ~check_schedule_conflicts_read(table, crew_member_id,
                                           departure_time[flight_id],
                                           arrival_time[flight_id], service_read_ok)
        THEN "ValueError: schedule conflict"
    ELSE IF Cardinality(find_by_flight_id(table, flight_id)) >= crew_required[flight_id] * 2
        THEN "ValueError: crew limit"
    ELSE IF ~check_crew_availability_read(table, crew_member_id, flight_id, repo_read_ok)
        THEN "None"
    ELSE IF ~insert_allowed(table, flight_id, crew_member_id) THEN "None"
    ELSE "OK"

\* which read of a create_assignment call raised, if the call got to it
read_failure(table, flight_id, crew_member_id, service_read_ok, repo_read_ok) ==
    IF ~is_available[crew_member_id] THEN NULL
    ELSE IF ~service_read_ok THEN "service read failed"
    ELSE IF service_checks(table, flight_id, crew_member_id) # "pass" THEN NULL
    ELSE IF ~repo_read_ok THEN "repository read failed"
    ELSE NULL

CreateAssignmentRead(f, c, service_read_ok, repo_read_ok) ==
    LET outcome == create_outcome_read(assignments, f, c, service_read_ok, repo_read_ok) IN
    /\ outcome = "OK" => Len(assignments) < MaxRows
    /\ assignments' = create_table(assignments, f, c, NULL, outcome)
    /\ last' = Call("create", f, c, IF outcome = "OK" THEN Len(assignments) + 1 ELSE 0,
                    read_failure(assignments, f, c, service_read_ok, repo_read_ok),
                    outcome, <<>>)
    /\ UNCHANGED <<flight_status, is_available, calls, probe>>

----------------------------------------------------------------------------
(* auto_assign_crew *)

priority_positions ==
    <<"PILOT", "CO_PILOT", "NAVIGATOR", "RADIO_OPERATOR", "FLIGHT_ATTENDANT">>

cert_rank(c) ==
    CASE certification_level[c] = "JUNIOR" -> 1
      [] certification_level[c] = "SENIOR" -> 2
      [] OTHER -> 3

\* the sort of auto_assign_crew: key (experience_years, level == 'CAPTAIN'),
\* reverse=True
sorts_before(a, b) ==
    \/ experience_years[a] > experience_years[b]
    \/ /\ experience_years[a] = experience_years[b]
       /\ certification_level[a] = "CAPTAIN"
       /\ certification_level[b] # "CAPTAIN"

\* ORDER BY certification_level DESC, experience_years DESC of
\* get_available_crew; the stable sort keeps it among equal keys
query_before(a, b) ==
    \/ cert_rank(a) > cert_rank(b)
    \/ cert_rank(a) = cert_rank(b) /\ experience_years[a] > experience_years[b]

\* the crew members that can be crew_by_position[position][0] after the sort
first_candidates(cands) ==
    { c \in cands : \A d \in cands \ {c} :
        /\ ~sorts_before(d, c)
        /\ (~sorts_before(c, d)) => ~query_before(d, c) }

\* crew members that neither the ORDER BY nor the sort key tell apart
TieClass(c) ==
    { d \in Crew : /\ position_name[d] = position_name[c]
                   /\ experience_years[d] = experience_years[c]
                   /\ certification_level[d] = certification_level[c] }

MinOf(S) == CHOOSE x \in S : \A y \in S : x <= y

\* the orders in which the database may return the rows that ORDER BY
\* leaves tied (crew members that are not tied are listed by id)
TieOrders ==
    { ord \in [1..Cardinality(Crew) -> Crew] :
        /\ \A i, j \in DOMAIN ord : ord[i] = ord[j] => i = j
        /\ \A i, j \in DOMAIN ord :
              (i < j /\ TieClass(ord[i]) # TieClass(ord[j]))
                  => MinOf(TieClass(ord[i])) < MinOf(TieClass(ord[j])) }

RankIn(ord, c) == CHOOSE i \in DOMAIN ord : ord[i] = c

\* crew_by_position[position][0]
first_of(cands, ord) ==
    CHOOSE c \in first_candidates(cands) :
        \A d \in first_candidates(cands) : RankIn(ord, c) <= RankIn(ord, d)

\* the loop over priority_positions: one create_assignment per position that
\* has available crew, until needed_crew reaches 0; a ValueError of
\* create_assignment ends the call, a None result is appended like a row
RECURSIVE auto_assign_loop(_, _, _, _, _, _, _)
auto_assign_loop(table, f, available, ord, k, needed_crew, created) ==
    LET cands == IF k > Len(priority_positions) THEN {}
                 ELSE { c \in available : position_name[c] = priority_positions[k] }
    IN
    IF k > Len(priority_positions) \/ needed_crew <= 0
    THEN [table |-> table, res |-> "OK", created |-> created]
    ELSE IF cands = {}
    THEN auto_assign_loop(table, f, available, ord, k + 1, needed_crew, created)
    ELSE LET crew_member == first_of(cands, ord)
             outcome == create_outcome(table, f, crew_member)
         IN
         IF outcome \notin {"OK", "None"}
         THEN [table |-> table, res |-> outcome, created |-> created]
         ELSE auto_assign_loop(create_table(table, f, crew_member, "auto", outcome),
                               f, available, ord, k + 1, needed_crew - 1,
                               Append(created, IF outcome = "OK" THEN Len(table) + 1 ELSE 0))

RECURSIVE AscendingSeq(_)
AscendingSeq(S) ==
    IF S = {} THEN <<>>
    ELSE LET m == CHOOSE x \in S : \A y \in S : x <= y
         IN  <<m>> \o AscendingSeq(S \ {m})

\* AssignmentService.auto_assign_crew
AutoAssignCrew(f) ==
    LET current_assignments == find_by_flight_id(assignments, f)
        active_assignments == { i \in current_assignments :
                                  assignments[i].status \in {"ASSIGNED", "CONFIRMED"} }
        available_crew == get_available_crew_for_flight(assignments, f)
    IN
    IF Cardinality(active_assignments) >= crew_required[f]
    THEN /\ last' = Call("auto", f, 0, 0, NULL, "OK: enough crew",
                         AscendingSeq(active_assignments))
         /\ UNCHANGED <<assignments, flight_status, is_available, calls, probe>>
    ELSE IF available_crew = {}
    THEN /\ last' = Call("auto", f, 0, 0, NULL, "ValueError: no available crew", <<>>)
         /\ UNCHANGED <<assignments, flight_status, is_available, calls, probe>>
    ELSE \E ord \in TieOrders :
         LET r == auto_assign_loop(assignments, f, available_crew, ord, 1,
                                   crew_required[f] - Cardinality(active_assignments), <<>>)
         IN  /\ Len(r.table) <= MaxRows
             /\ assignments' = r.table
             /\ last' = Call("auto", f, 0, 0, NULL, r.res, r.created)
             /\ UNCHANGED <<flight_status, is_available, calls, probe>>

----------------------------------------------------------------------------
(* update_assignment, confirm, cancel_assignment *)

UpdateStatuses == AssignmentStatus \cup {NULL}     \* NULL: no 'status' key
UpdateNotes == {NULL, "updated"}                    \* NULL: no 'notes' key

\* AssignmentRepository.update_assignment: SET every field passed
update_row(row, status, notes) ==
    [row EXCEPT !.status = IF status = NULL THEN @ ELSE status,
                !.notes = IF notes = NULL THEN @ ELSE notes]

\* AssignmentService.update_assignment: only 'status' and 'notes' pass the
\* filter; the status value is checked against the three names, the current
\* status of the row is not looked at
update_outcome(id, status, notes) ==
    IF id \notin Rows THEN "ValueError: not found"
    ELSE IF status = NULL /\ notes = NULL THEN "Exception: no valid fields"
    ELSE "OK"

UpdateAssignment(id, status, notes) ==
    LET outcome == update_outcome(id, status, notes) IN
    /\ assignments' = IF outcome = "OK"
                      THEN [assignments EXCEPT ![id] = update_row(@, status, notes)]
                      ELSE assignments
    /\ last' = Call("update", 0, 0, id, status, outcome, <<>>)
    /\ UNCHANGED <<flight_status, is_available, calls, probe>>

\* POST /{assignment_id}/confirm: update_assignment(status='CONFIRMED');
\* FlightAssignment.confirm_assignment sets the status the same way
ConfirmAssignment(id) ==
    LET outcome == update_outcome(id, "CONFIRMED", NULL) IN
    /\ assignments' = IF outcome = "OK"
                      THEN [assignments EXCEPT ![id] = update_row(@, "CONFIRMED", NULL)]
                      ELSE assignments
    /\ last' = Call("confirm", 0, 0, id, "CONFIRMED", outcome, <<>>)
    /\ UNCHANGED <<flight_status, is_available, calls, probe>>

\* AssignmentRepository._check_crew_availability with exclude_assignment_id:
\* the result of the database function is not used, the count query over the
\* other ASSIGNED rows of the crew member decides
check_crew_availability_excluding(table, crew_member_id, flight_id, exclude_assignment_id) ==
    ~\E i \in DOMAIN table :
        /\ table[i].crew_member_id = crew_member_id
        /\ table[i].status = "ASSIGNED"
        /\ i # exclude_assignment_id
        /\ sql_conflict(departure_time[table[i].flight_id],
                        arrival_time[table[i].flight_id],
                        departure_time[flight_id], arrival_time[flight_id])

\* AssignmentRepository.update_assignment with 'flight_id' and
\* 'crew_member_id' in assignment_data; the UPDATE runs under the unique
\* constraint
repo_update_outcome(table, id, flight_id, crew_member_id) ==
    IF id \notin DOMAIN table THEN "Exception: not found"
    ELSE IF ~check_crew_availability_excluding(table, crew_member_id, flight_id, id)
        THEN "Exception: crew not available"
    ELSE IF \E i \in DOMAIN table : /\ i # id
                                     /\ table[i].flight_id = flight_id
                                     /\ table[i].crew_member_id = crew_member_id
        THEN "Exception: database error"
    ELSE "OK"

\* AssignmentRepository.update_assignment(id, {flight_id, crew_member_id})
UpdateAssignmentFields(id, f, c) ==
    LET outcome == repo_update_outcome(assignments, id, f, c) IN
    /\ assignments' = IF outcome = "OK"
                      THEN [assignments EXCEPT ![id].flight_id = f,
                                               ![id].crew_member_id = c]
                      ELSE assignments
    /\ last' = Call("repo_update", f, c, id, NULL, outcome, <<>>)
    /\ UNCHANGED <<flight_status, is_available, calls, probe>>

CancelReasons == {NULL, "reason"}

\* a cancel that does not look at the current status of the row
cancel_outcome_unguarded(id) ==
    IF id \notin Rows THEN "ValueError: not found"
    ELSE "OK"

\* AssignmentService.cancel_assignment
cancel_outcome(id) ==
    IF id \notin Rows THEN "ValueError: not found"
    ELSE IF assignments[id].status = "CANCELLED" THEN "ValueError: already cancelled"
    ELSE "OK"

CancelAssignment(id, reason) ==
    LET outcome == cancel_outcome(id) IN
    /\ assignments' = IF outcome = "OK"
                      THEN [assignments EXCEPT ![id] = update_row(@, "CANCELLED", reason)]
                      ELSE assignments
    /\ last' = Call("cancel", 0, 0, id, reason, outcome, <<>>)
    /\ UNCHANGED <<flight_status, is_available, calls, probe>>

----------------------------------------------------------------------------
(* Flight status and crew availability *)

\* FlightService._is_valid_status_transition
valid_transitions(current_status) ==
    CASE current_status = "SCHEDULED" -> {"DELAYED", "CANCELLED", "COMPLETED"}
      [] current_status = "DELAYED" -> {"SCHEDULED", "CANCELLED", "COMPLETED"}
      [] current_status = "CANCELLED" -> {"SCHEDULED"}
      [] OTHER -> {}

is_valid_status_transition(current_status, new_status) ==
    new_status \in valid_transitions(current_status)

\* FlightService.update_flight_status
UpdateFlightStatus(f, new_status) ==
    LET ok == is_valid_status_transition(flight_status[f], new_status) IN
    /\ flight_status' = IF ok THEN [flight_status EXCEPT ![f] = new_status]
                        ELSE flight_status
    /\ last' = Call("flight_status", f, 0, 0, new_status,
                    IF ok THEN "OK" ELSE "FlightValidationError", <<>>)
    /\ UNCHANGED <<assignments, is_available, calls, probe>>

\* AssignmentRepository.cancel_assignments_by_flight: every assignment of the
\* flight that is not cancelled becomes CANCELLED
cancel_assignments_by_flight(table, flight_id) ==
    [i \in DOMAIN table |->
        IF table[i].flight_id = flight_id /\ table[i].status # "CANCELLED"
        THEN [table[i] EXCEPT !.status = "CANCELLED"]
        ELSE table[i]]

\* FlightService.cancel_flight: FlightRepository.cancel_flight refuses a
\* COMPLETED flight and sets CANCELLED otherwise, then the assignments of the
\* flight are cancelled
CancelFlight(f) ==
    IF flight_status[f] = "COMPLETED"
    THEN /\ last' = Call("cancel_flight", f, 0, 0, NULL, "ValueError: completed flight", <<>>)
         /\ UNCHANGED <<assignments, flight_status, is_available, calls, probe>>
    ELSE /\ flight_status' = [flight_status EXCEPT ![f] = "CANCELLED"]
         /\ assignments' = cancel_assignments_by_flight(assignments, f)
         /\ last' = Call("cancel_flight", f, 0, 0, NULL, "OK", <<>>)
         /\ UNCHANGED <<is_available, calls, probe>>

\* FlightService.update with 'status' in update_data: _validate_update_data
\* refuses a COMPLETED flight, the repository then sets the attribute
UpdateFlight(f, new_status) ==
    LET ok == flight_status[f] # "COMPLETED" IN
    /\ flight_status' = IF ok THEN [flight_status EXCEPT ![f] = new_status]
                        ELSE flight_status
    /\ last' = Call("update_flight", f, 0, 0, new_status,
                    IF ok THEN "OK" ELSE "FlightValidationError", <<>>)
    /\ UNCHANGED <<assignments, is_available, calls, probe>>

\* CrewService.set_crew_availability (src/services/crew_service.py): turning
\* the flag off is refused while the crew member has an ASSIGNED assignment
set_availability_outcome(c, flag) ==
    IF ~flag /\ \E i \in Rows : assignments[i].crew_member_id = c
                                /\ assignments[i].status = "ASSIGNED"
    THEN "ValueError: has assignments"
    ELSE "OK"

SetCrewAvailability(c, flag) ==
    LET outcome == set_availability_outcome(c, flag) IN
    /\ is_available' = IF outcome = "OK" THEN [is_available EXCEPT ![c] = flag]
                       ELSE is_available
    /\ last' = Call("availability", 0, c, 0, IF flag THEN "TRUE" ELSE "FALSE",
                    outcome, <<>>)
    /\ UNCHANGED <<assignments, flight_status, calls, probe>>

----------------------------------------------------------------------------
(* Concurrent create_assignment calls: the service checks, the repository's *)
(* availability check and the insert are separate reads and writes of the   *)
(* table, and other calls may run between them                              *)

Idle == [pc |-> "idle", flight_id |-> 0, crew_member_id |-> 0]

\* AssignmentService.create_assignment up to the repository call
CreateBegin(p, f, c) ==
    LET checked == service_checks(assignments, f, c) IN
    /\ calls[p].pc = "idle"
    /\ IF checked = "pass"
       THEN /\ calls' = [calls EXCEPT ![p] = [pc |-> "repo", flight_id |-> f,
                                               crew_member_id |-> c]]
            /\ UNCHANGED last
       ELSE /\ last' = Call("create", f, c, 0, NULL, checked, <<>>)
            /\ UNCHANGED calls
    /\ UNCHANGED <<assignments, flight_status, is_available, probe>>

\* AssignmentRepository.create_assignment: the availability check
CreateRepoCheck(p) ==
    LET f == calls[p].flight_id
        c == calls[p].crew_member_id
    IN
    /\ calls[p].pc = "repo"
    /\ IF check_crew_availability(assignments, c, f)
       THEN /\ calls' = [calls EXCEPT ![p].pc = "insert"]
            /\ UNCHANGED last
       ELSE /\ calls' = [calls EXCEPT ![p] = Idle]
            /\ last' = Call("create", f, c, 0, NULL, "None", <<>>)
    /\ UNCHANGED <<assignments, flight_status, is_available, probe>>

\* AssignmentRepository.create_assignment: db.add and db.commit
CreateInsert(p) ==
    LET f == calls[p].flight_id
        c == calls[p].crew_member_id
        outcome == IF insert_allowed(assignments, f, c) THEN "OK" ELSE "None"
    IN
    /\ calls[p].pc = "insert"
    /\ outcome = "OK" => Len(assignments) < MaxRows
    /\ assignments' = create_table(assignments, f, c, NULL, outcome)
    /\ calls' = [calls EXCEPT ![p] = Idle]
    /\ last' = Call("create", f, c, IF outcome = "OK" THEN Len(assignments) + 1 ELSE 0,
                    NULL, outcome, <<>>)
    /\ UNCHANGED <<flight_status, is_available, probe>>

----------------------------------------------------------------------------
(* Concurrent auto_assign_crew calls: the read of the active assignments,   *)
(* the read of the available crew and each create_assignment of the loop    *)
(* are separate reads and writes of the table                               *)

\* auto_assign_crew up to the check of the active count
AutoBegin(p, f) ==
    LET current_assignments == find_by_flight_id(assignments, f)
        active_assignments == { i \in current_assignments :
                                  assignments[i].status \in {"ASSIGNED", "CONFIRMED"} }
    IN
    /\ calls[p].pc = "idle"
    /\ IF Cardinality(active_assignments) >= crew_required[f]
       THEN /\ last' = Call("auto", f, 0, 0, NULL, "OK: enough crew",
                            AscendingSeq(active_assignments))
            /\ UNCHANGED calls
       ELSE /\ calls' = [calls EXCEPT ![p] =
                           [pc |-> "auto_read", flight_id |-> f, crew_member_id |-> 0,
                            needed_crew |-> crew_required[f] - Cardinality(active_assignments),
                            available |-> {}, k |-> 1, created |-> <<>>]]
            /\ UNCHANGED last
    /\ UNCHANGED <<assignments, flight_status, is_available, probe>>

\* auto_assign_crew: get_available_crew_for_flight and the empty-list check
AutoReadAvailable(p) ==
    LET f == calls[p].flight_id
        available_crew == get_available_crew_for_flight(assignments, f)
    IN
    /\ calls[p].pc = "auto_read"
    /\ IF available_crew = {}
       THEN /\ last' = Call("auto", f, 0, 0, NULL, "ValueError: no available crew", <<>>)
            /\ calls' = [calls EXCEPT ![p] = Idle]
       ELSE /\ calls' = [calls EXCEPT ![p].pc = "auto_loop",
                                      ![p].available = available_crew]
            /\ UNCHANGED last
    /\ UNCHANGED <<assignments, flight_status, is_available, probe>>

\* auto_assign_crew: one pass of the loop over priority_positions, or the
\* return after it
AutoLoopStep(p) ==
    LET f == calls[p].flight_id
        k == calls[p].k
        cands == IF k > Len(priority_positions) THEN {}
                 ELSE { c \in calls[p].available : position_name[c] = priority_positions[k] }
    IN
    /\ calls[p].pc = "auto_loop"
    /\ IF k > Len(priority_positions) \/ calls[p].needed_crew <= 0
       THEN /\ last' = Call("auto", f, 0, 0, NULL, "OK", calls[p].created)
            /\ calls' = [calls EXCEPT ![p] = Idle]
            /\ UNCHANGED assignments
       ELSE IF cands = {}
       THEN /\ calls' = [calls EXCEPT ![p].k = k + 1]
            /\ UNCHANGED <<assignments, last>>
       ELSE \E ord \in TieOrders :
            LET crew_member == first_of(cands, ord)
                outcome == create_outcome(assignments, f, crew_member)
            IN
            /\ outcome = "OK" => Len(assignments) < MaxRows
            /\ assignments' = create_table(assignments, f, crew_member, "auto", outcome)
            /\ IF outcome \notin {"OK", "None"}
               THEN /\ last' = Call("auto", f, 0, 0, NULL, outcome, calls[p].created)
                    /\ calls' = [calls EXCEPT ![p] = Idle]
               ELSE /\ calls' = [calls EXCEPT
                                   ![p].k = k + 1,
                                   ![p].needed_crew = @ - 1,
                                   ![p].created = Append(@, IF outcome = "OK"
                                                            THEN Len(assignments) + 1 ELSE 0)]
                    /\ UNCHANGED last
    /\ UNCHANGED <<flight_status, is_available, probe>>

----------------------------------------------------------------------------
(* The conflict predicates applied to two arbitrary well-formed windows *)

Times == 0..MaxTime

NoProbe == [a_dep |-> 0, a_arr |-> 0, b_dep |-> 0, b_arr |-> 0, evaluated |-> FALSE,
            conflict |-> FALSE, sql |-> FALSE]

\* window a is the flight the predicate is called on (the stored flight of
\* the query), window b is the window passed in
EvaluateConflict ==
    /\ ~probe.evaluated
    /\ probe.a_dep < probe.a_arr
    /\ probe' = [probe EXCEPT
                   !.evaluated = TRUE,
                   !.conflict = is_time_conflict(probe.a_dep, probe.a_arr,
                                                 probe.b_dep, probe.b_arr),
                   !.sql = sql_conflict(probe.a_dep, probe.a_arr,
                                        probe.b_dep, probe.b_arr)]
    /\ UNCHANGED <<assignments, flight_status, is_available, last, calls>>

----------------------------------------------------------------------------
Base ==
    /\ assignments = <<>>
    /\ flight_status = [f \in Flights |-> "SCHEDULED"]
    /\ is_available = [c \in StaffedCrew |-> TRUE]
    /\ last = Call("init", 0, 0, 0, NULL, "OK", <<>>)
    /\ calls = [p \in Callers |-> Idle]

Init == Base /\ probe = NoProbe

Next ==
    \/ \E f \in Flights, c \in Crew : CreateAssignment(f, c)
    \/ \E id \in Rows, s \in AssignmentStatus : UpdateAssignment(id, s, NULL)
    \/ \E id \in Rows : ConfirmAssignment(id)
    \/ \E id \in Rows : CancelAssignment(id, NULL)
    \/ \E f \in Flights : AutoAssignCrew(f)

Spec == Init /\ [][Next]_vars

\* two callers issuing create_assignment concurrently
NextRace ==
    \/ \E p \in Callers, f \in Flights, c \in Crew : CreateBegin(p, f, c)
    \/ \E p \in Callers : CreateRepoCheck(p)
    \/ \E p \in Callers : CreateInsert(p)

SpecRace == Init /\ [][NextRace]_vars

\* the conflict predicates on every pair of well-formed windows
InitPure ==
    /\ Base
    /\ probe \in { pr \in [a_dep : Times, a_arr : Times, b_dep : Times, b_arr : Times,
                          evaluated : {FALSE}, conflict : {FALSE}, sql : {FALSE}] :
                     pr.a_dep < pr.a_arr /\ pr.b_dep < pr.b_arr }

NextPure == EvaluateConflict

\* create_assignment while flights change status
NextFlight ==
    \/ \E f \in Flights, c \in Crew : CreateAssignment(f, c)
    \/ \E f \in Flights, s \in FlightStatus : UpdateFlightStatus(f, s)

SpecFlight == Init /\ [][NextFlight]_vars

SpecPure == InitPure /\ [][NextPure]_vars

\* create and cancel, with and without a cancellation reason
NextCancel ==
    \/ \E f \in Flights, c \in Crew : CreateAssignment(f, c)
    \/ \E id \in Rows : ConfirmAssignment(id)
    \/ \E id \in Rows, reason \in CancelReasons : CancelAssignment(id, reason)

SpecCancel == Init /\ [][NextCancel]_vars

\* the two operations that insert rows, create with every 'status' payload
NextPayload ==
    \/ \E f \in Flights, c \in Crew, s \in UpdateStatuses : CreateAssignmentData(f, c, s)
    \/ \E f \in Flights : AutoAssignCrew(f)
    \/ \E id \in Rows : CancelAssignment(id, NULL)

SpecPayload == Init /\ [][NextPayload]_vars

\* the planner on a crew that includes a flight engineer, while crew members
\* are switched available and unavailable
InitAuto ==
    /\ assignments = <<>>
    /\ flight_status = [f \in Flights |-> "SCHEDULED"]
    /\ is_available = [c \in CrewWithEngineer |-> TRUE]
    /\ last = Call("init", 0, 0, 0, NULL, "OK", <<>>)
    /\ calls = [p \in Callers |-> Idle]
    /\ probe = NoProbe

NextAuto ==
    \/ \E id \in Rows : ConfirmAssignment(id)
    \/ \E f \in Flights : AutoAssignCrew(f)
    \/ \E c \in Crew, flag \in BOOLEAN : SetCrewAvailability(c, flag)

SpecAuto == InitAuto /\ [][NextAuto]_vars

\* assignments moved to another flight or crew member
NextUpdate ==
    \/ \E f \in Flights, c \in Crew : CreateAssignment(f, c)
    \/ \E id \in Rows : ConfirmAssignment(id)
    \/ \E id \in Rows, f \in Flights, c \in Crew : UpdateAssignmentFields(id, f, c)

SpecUpdate == Init /\ [][NextUpdate]_vars

\* two callers issuing auto_assign_crew concurrently
NextAutoRace ==
    \/ \E p \in Callers, f \in Flights : AutoBegin(p, f)
    \/ \E p \in Callers : AutoReadAvailable(p)
    \/ \E p \in Callers : AutoLoopStep(p)

SpecAutoRace == Init /\ [][NextAutoRace]_vars

\* sequential create_assignment calls only, up to the crew cap of a flight
NextCap == \E f \in Flights, c \in Crew : CreateAssignmentWithin(f, c, CapRows)

SpecCap == Init /\ [][NextCap]_vars

\* assignments created, confirmed and cancelled while crew members are
\* switched available and unavailable
NextAvailability ==
    \/ \E f \in Flights, c \in Crew : CreateAssignment(f, c)
    \/ \E id \in Rows : ConfirmAssignment(id)
    \/ \E id \in Rows : CancelAssignment(id, NULL)
    \/ \E c \in Crew, flag \in BOOLEAN : SetCrewAvailability(c, flag)

SpecAvailability == Init /\ [][NextAvailability]_vars

\* assignments created while flights are cancelled
NextFlightCancel ==
    \/ \E f \in Flights, c \in Crew : CreateAssignment(f, c)
    \/ \E f \in Flights : AutoAssignCrew(f)
    \/ \E f \in Flights : CancelFlight(f)

SpecFlightCancel == Init /\ [][NextFlightCancel]_vars

\* every operation that writes the status of a flight
NextFlightStatus ==
    \/ \E f \in Flights, s \in FlightStatus : UpdateFlightStatus(f, s)
    \/ \E f \in Flights : CancelFlight(f)
    \/ \E f \in Flights, s \in FlightStatus : UpdateFlight(f, s)

SpecFlightStatus == Init /\ [][NextFlightStatus]_vars

\* create_assignment while the storage reads of the availability checks may
\* fail
NextStorage ==
    \/ \E f \in Flights, c \in Crew, sr, rr \in BOOLEAN : CreateAssignmentRead(f, c, sr, rr)
    \/ \E id \in Rows : CancelAssignment(id, NULL)

SpecStorage == Init /\ [][NextStorage]_vars

----------------------------------------------------------------------------
(* Properties *)

Active(i) == assignments[i].status \in {"ASSIGNED", "CONFIRMED"}

\* C1: no double booking -- in every reachable state, two distinct
\* non-cancelled assignments of the same crew member are never on flights
\* whose windows [departure, arrival) overlap.
NoDoubleBooking ==
    \A i, j \in Rows :
        (/\ i # j
         /\ assignments[i].crew_member_id = assignments[j].crew_member_id
         /\ Active(i) /\ Active(j))
            => ~FlightsOverlap(assignments[i].flight_id, assignments[j].flight_id)

\* C2: uniqueness -- in every reachable state, every (flight, crew member)
\* pair has at most one assignment row whose status is not CANCELLED.
Uniqueness ==
    \A f \in Flights, c \in Crew :
        Cardinality({ i \in Rows : /\ assignments[i].flight_id = f
                                   /\ assignments[i].crew_member_id = c
                                   /\ assignments[i].status # "CANCELLED" }) <= 1

\* a create for a pair that holds a non-cancelled row was issued and refused
UniquenessWitness ==
    /\ last.op = "create"
    /\ last.res # "OK"
    /\ \E i \in Rows : /\ assignments[i].flight_id = last.flight_id
                       /\ assignments[i].crew_member_id = last.crew_member_id
                       /\ assignments[i].status # "CANCELLED"

\* C3: of two concurrent create calls that attach the same crew member to
\* two different flights with overlapping windows at most one inserts its
\* row: no state holds both assignments non-cancelled.
RaceAtMostOneCommits ==
    ~\E i, j \in Rows :
        /\ assignments[i].crew_member_id = assignments[j].crew_member_id
        /\ assignments[i].flight_id # assignments[j].flight_id
        /\ FlightsOverlap(assignments[i].flight_id, assignments[j].flight_id)
        /\ assignments[i].status # "CANCELLED"
        /\ assignments[j].status # "CANCELLED"

\* C4: on two well-formed windows, Flight.is_time_conflict and the
\* three-clause SQL condition are true iff aStart < bEnd and bStart < aEnd;
\* windows that only touch are not a conflict.
ConflictIsStrictOverlap ==
    probe.evaluated =>
        /\ probe.conflict = overlaps(probe.a_dep, probe.a_arr, probe.b_dep, probe.b_arr)
        /\ probe.sql = overlaps(probe.a_dep, probe.a_arr, probe.b_dep, probe.b_arr)

\* C5: the eligibility filter returns a crew member for a target flight iff
\* the availability flag is set and no ASSIGNED or CONFIRMED assignment of
\* the crew member is on a flight whose window overlaps the target's.
EligibilityFilterExact ==
    \A f \in Flights, c \in Crew :
        (c \in get_available_crew(assignments, departure_time[f], arrival_time[f]))
            <=> (/\ is_available[c]
                 /\ ~\E i \in Rows : /\ assignments[i].crew_member_id = c
                                     /\ Active(i)
                                     /\ FlightsOverlap(assignments[i].flight_id, f))

CrewNotEligible == {"ValueError: crew unavailable", "ValueError: schedule conflict"}

ActiveOnOverlapping(c, f) ==
    \E i \in Rows : /\ assignments[i].crew_member_id = c
                    /\ Active(i)
                    /\ assignments[i].flight_id # f
                    /\ FlightsOverlap(assignments[i].flight_id, f)

FlightNotAssignable ==
    [][(/\ last'.op = "create"
        /\ flight_status[last'.flight_id] \in {"CANCELLED", "COMPLETED"})
           => (last'.res = "FlightNotAssignable" /\ assignments' = assignments)]_vars

PairActive(f, c) ==
    \E i \in Rows : /\ assignments[i].flight_id = f
                    /\ assignments[i].crew_member_id = c
                    /\ assignments[i].status # "CANCELLED"

\* a create_assignment call for (f, c) returns in this step
CreateReturns(f, c) ==
    /\ last'.op = "create"
    /\ last'.flight_id = f
    /\ last'.crew_member_id = c
    /\ \/ last' # last
       \/ \E p \in Callers : /\ calls[p].pc # "idle"
                             /\ calls'[p].pc = "idle"
                             /\ calls[p].flight_id = f
                             /\ calls[p].crew_member_id = c

\* C8: a create for a pair that already has a non-cancelled assignment ends
\* with an error raised to the caller (neither a created row nor a silent
\* None), by the pre-check or by the unique constraint, and leaves the table
\* as it was.
DuplicateIsReported ==
    [][\A f \in Flights, c \in Crew :
          (CreateReturns(f, c) /\ PairActive(f, c))
              => (last'.res \notin {"OK", "None"} /\ assignments' = assignments)]_vars

PairOnlyCancelled(f, c) ==
    /\ \E i \in Rows : /\ assignments[i].flight_id = f
                       /\ assignments[i].crew_member_id = c
    /\ ~PairActive(f, c)

\* C9: re-assignment after cancellation -- when every assignment of (F, C)
\* is CANCELLED and C is otherwise eligible, a create for (F, C) succeeds and
\* appends a new ASSIGNED row, leaving every existing row as it was.
ReassignAfterCancel ==
    [][\A f \in Flights, c \in Crew :
          (/\ last'.op = "create"
           /\ last'.flight_id = f
           /\ last'.crew_member_id = c
           /\ PairOnlyCancelled(f, c)
           /\ service_checks(assignments, f, c) = "pass"
           /\ check_crew_availability(assignments, c, f))
              => (/\ last'.res = "OK"
                  /\ assignments' = Append(assignments, NewRow(f, c, NULL)))]_vars

\* C10: CANCELLED is terminal -- a row whose status is CANCELLED keeps that
\* status in every later state, and a confirm or a status update to
\* CONFIRMED or ASSIGNED on it fails with InvalidTransition.
CancelledIsTerminal ==
    [][\A id \in Rows :
          assignments[id].status = "CANCELLED"
              => (/\ assignments'[id].status = "CANCELLED"
                  /\ (/\ last'.op \in {"confirm", "update"}
                      /\ last'.id = id
                      /\ last'.arg \in {"CONFIRMED", "ASSIGNED"})
                         => last'.res = "InvalidTransition")]_vars

\* C11: cancelling an assignment twice -- a cancel on a row that is not
\* CANCELLED succeeds and sets CANCELLED; a cancel on a row that is already
\* CANCELLED ends with an error, never a success, and changes neither the
\* status nor the notes of the row.
CancelTwice ==
    [][\A id \in Rows :
          (last'.op = "cancel" /\ last'.id = id)
              => IF assignments[id].status = "CANCELLED"
                 THEN /\ last'.res = "ValueError: already cancelled"
                      /\ assignments'[id].status = assignments[id].status
                      /\ assignments'[id].notes = assignments[id].notes
                 ELSE /\ last'.res = "OK"
                      /\ assignments'[id].status = "CANCELLED"]_vars

\* a second cancel, with a reason the first one did not carry, was refused
CancelTwiceWitness ==
    /\ last.op = "cancel"
    /\ last.res = "ValueError: already cancelled"
    /\ last.arg = "reason"
    /\ assignments[last.id].status = "CANCELLED"
    /\ assignments[last.id].notes = NULL

StatusTransitions ==
    [][\A id \in Rows :
          \/ assignments'[id].status = assignments[id].status
          \/ <<assignments[id].status, assignments'[id].status>> \in
                {<<"ASSIGNED", "CONFIRMED">>, <<"ASSIGNED", "CANCELLED">>,
                 <<"CONFIRMED", "CANCELLED">>}]_vars

\* the rows a step inserts, and the positions of their crew members
NewRows == (DOMAIN assignments') \ Rows

NewPositions == { position_name[assignments'[i].crew_member_id] : i \in NewRows }

\* the priority order of the contract, in the names of the position table
ContractPriority == <<"PILOT", "CO_PILOT", "FLIGHT_ENGINEER", "FLIGHT_ATTENDANT">>

PriorityRank(pos) == CHOOSE k \in DOMAIN ContractPriority : ContractPriority[k] = pos

ActiveOnFlight(table, f) ==
    { i \in DOMAIN table : table[i].flight_id = f
                            /\ table[i].status \in {"ASSIGNED", "CONFIRMED"} }

\* C14: auto_assign_crew works through PILOT, CO_PILOT, ENGINEER, ATTENDANT
\* in that order -- the rows of one call are inserted in that order of
\* position, and each of the four positions is considered: a position with
\* an available crew member is skipped neither for a later position nor while
\* the flight still lacks crew.
PriorityOrder ==
    [][(last'.op = "auto" /\ last'.res = "OK")
          => LET f == last'.flight_id
                 available == get_available_crew_for_flight(assignments, f)
                 offered == { position_name[c] : c \in available }
             IN  /\ \A i, j \in NewRows :
                       i < j => PriorityRank(position_name[assignments'[i].crew_member_id])
                                  <= PriorityRank(position_name[assignments'[j].crew_member_id])
                 /\ \A P \in offered \ NewPositions :
                       /\ P \in { ContractPriority[k] : k \in DOMAIN ContractPriority }
                       /\ \A Q \in NewPositions : PriorityRank(Q) < PriorityRank(P)
                       /\ Cardinality(ActiveOnFlight(assignments', f)) >= crew_required[f]]_vars

\* the ranking of the contract: certification tier, then experience, then id
ContractBefore(a, b) ==
    \/ cert_rank(a) > cert_rank(b)
    \/ cert_rank(a) = cert_rank(b) /\ experience_years[a] > experience_years[b]
    \/ /\ cert_rank(a) = cert_rank(b)
       /\ experience_years[a] = experience_years[b]
       /\ a < b

\* C15: deterministic ranking -- within a position auto_assign_crew picks by
\* certification tier descending (CAPTAIN > SENIOR > JUNIOR), then experience
\* descending, then id: every crew member it assigns ranks before every
\* available crew member of the same position that it leaves unassigned.
RankingByTierThenExperience ==
    [][(last'.op = "auto" /\ last'.res = "OK")
          => LET available == get_available_crew_for_flight(assignments, last'.flight_id)
                 picked == { assignments'[i].crew_member_id : i \in NewRows }
             IN  \A c \in picked, d \in available \ picked :
                     position_name[c] = position_name[d] => ContractBefore(c, d)]_vars

\* the slots of flight f still open, as auto_assign_crew counts them
RemainingSlots(f) ==
    crew_required[f] - Cardinality({ i \in find_by_flight_id(assignments, f) :
                                       assignments[i].status \in {"ASSIGNED", "CONFIRMED"} })

\* the available crew members of flight f in a position the planner works
\* through and for whom create_assignment would succeed
Assignable(f) ==
    { c \in get_available_crew_for_flight(assignments, f) :
        /\ \E k \in DOMAIN priority_positions : priority_positions[k] = position_name[c]
        /\ create_outcome(assignments, f, c) = "OK" }

\* C16: for each position auto_assign_crew creates assignments for the top
\* candidates until no slot remains or the candidates are exhausted --
\* whenever the assignable candidates are at least as many as the remaining
\* slots, the flight holds exactly crew_required non-cancelled assignments
\* when the call returns.
FillsRemainingSlots ==
    [][\A f \in Flights :
          (/\ last'.op = "auto"
           /\ last'.flight_id = f
           /\ RemainingSlots(f) > 0
           /\ Cardinality(Assignable(f)) >= RemainingSlots(f))
              => Cardinality(ActiveOnFlight(assignments', f)) = crew_required[f]]_vars

\* C17: a create_assignment that fails for one candidate inside
\* auto_assign_crew (crew member not eligible, duplicate) makes the planner
\* go on with the next candidate -- the call never ends with the error of a
\* create, and it returns the rows it inserted.
AutoSkipsFailedCreate ==
    [][last'.op = "auto"
          => /\ last'.res \notin CrewNotEligible
             /\ last'.res = "OK" => \A i \in NewRows :
                                      \E k \in DOMAIN last'.created : last'.created[k] = i]_vars

\* C18: partial auto-assign -- auto_assign_crew does not fail because
\* positions cannot be filled: when no create fails for a candidate, the
\* call ends without error and returns exactly the rows it inserted, also
\* when fewer crew members than slots (or none) are available.
PartialAutoAssign ==
    [][\A f \in Flights :
          (/\ last'.op = "auto"
           /\ last'.flight_id = f
           /\ RemainingSlots(f) > 0
           /\ get_available_crew_for_flight(assignments, f) \subseteq
                  { c \in Crew : create_outcome(assignments, f, c) = "OK" })
              => /\ last'.res = "OK"
                 /\ last'.created = AscendingSeq(NewRows)]_vars

\* C19: idempotent re-planning -- on a flight that already holds
\* crew_required non-cancelled assignments, auto_assign_crew inserts no row
\* and changes no row.
AutoAtFixpoint ==
    [][\A f \in Flights :
          (/\ last'.op = "auto"
           /\ last'.flight_id = f
           /\ Cardinality(ActiveOnFlight(assignments, f)) >= crew_required[f])
              => assignments' = assignments]_vars

\* C20: a storage read failure during the schedule-conflict check of
\* create_assignment reaches the caller as a StorageUnavailable error; it is
\* never turned into a "crew member has a conflict" or "not available"
\* outcome.
StorageFailureSurfaces ==
    [][(last'.op = "create" /\ last'.arg \in {"service read failed", "repository read failed"})
          => (last'.res = "StorageUnavailable" /\ assignments' = assignments)]_vars

\* C30: on every pair of well-formed windows Flight.is_time_conflict and the
\* three-clause SQL condition of the repository queries give the same
\* result, and the result is the same when the two windows are swapped.
PredicatesAgree ==
    probe.evaluated =>
        /\ probe.conflict = probe.sql
        /\ probe.conflict = is_time_conflict(probe.b_dep, probe.b_arr,
                                             probe.a_dep, probe.a_arr)
        /\ probe.sql = sql_conflict(probe.b_dep, probe.b_arr, probe.a_dep, probe.a_arr)

\* the predicates were evaluated on a flight that lies strictly inside the
\* other window, and both report a conflict
PredicatesAgreeWitness ==
    /\ probe.evaluated
    /\ probe.b_dep < probe.a_dep
    /\ probe.a_arr < probe.b_arr
    /\ probe.conflict
    /\ probe.sql

\* C21: partial progress survives and can be retried -- an auto_assign_crew
\* call, ended by an error or not, leaves every row that was committed in
\* place; a later call on the flight inserts at most crew_required minus the
\* current active count rows and never a row for a crew member who is
\* already active on the flight.
PartialProgressRetry ==
    [][\A f \in Flights :
          (last'.op = "auto" /\ last'.flight_id = f)
              => LET active == ActiveOnFlight(assignments, f)
                     open == IF crew_required[f] > Cardinality(active)
                             THEN crew_required[f] - Cardinality(active) ELSE 0
                 IN  /\ \A i \in Rows : assignments'[i] = assignments[i]
                     /\ Cardinality(NewRows) <= open
                     /\ \A i \in NewRows : \A j \in active :
                           assignments'[i].crew_member_id # assignments[j].crew_member_id]_vars

\* C22: update in place -- an update that moves assignment A to flight f and
\* crew member c is rejected iff c has another active assignment (id other
\* than A) on a flight whose window overlaps f's; A itself is not counted,
\* and a rejected update leaves A as it was.
UpdateInPlace ==
    [][\A id \in Rows :
          (last'.op = "repo_update" /\ last'.id = id)
              => LET f == last'.flight_id
                     c == last'.crew_member_id
                     blocked == \E i \in Rows \ {id} :
                                    /\ assignments[i].crew_member_id = c
                                    /\ Active(i)
                                    /\ FlightsOverlap(assignments[i].flight_id, f)
                 IN  IF blocked
                     THEN last'.res # "OK" /\ assignments' = assignments
                     ELSE /\ last'.res = "OK"
                          /\ assignments'[id].flight_id = f
                          /\ assignments'[id].crew_member_id = c]_vars

\* crew member c is available, holds no active assignment, and has a
\* cancelled assignment on a flight f1 other than f2 whose window overlaps f2's
FreedByCancellation(c, f2) ==
    /\ is_available[c]
    /\ ~\E i \in Rows : assignments[i].crew_member_id = c /\ Active(i)
    /\ \E i \in Rows : /\ assignments[i].crew_member_id = c
                       /\ assignments[i].status = "CANCELLED"
                       /\ assignments[i].flight_id # f2
                       /\ FlightsOverlap(assignments[i].flight_id, f2)

ConfirmKeepsStaffing ==
    [][\A id \in Rows :
          (/\ last'.op = "confirm"
           /\ last'.id = id
           /\ last'.res = "OK"
           /\ assignments[id].status = "ASSIGNED")
              => LET f == assignments[id].flight_id
                 IN  /\ assigned_crew_count(assignments', f) = assigned_crew_count(assignments, f)
                     /\ is_fully_staffed(assignments', f) = is_fully_staffed(assignments, f)
                     /\ staffing_status(assignments', f) = staffing_status(assignments, f)]_vars

\* C25: auto_assign_crew never over-staffs -- whatever the interleaving of
\* two auto_assign_crew calls, no flight holds more than crew_required
\* active (ASSIGNED or CONFIRMED) assignments.
NeverOverStaffs ==
    \A f \in Flights : Cardinality(ActiveOnFlight(assignments, f)) <= crew_required[f]

\* C26: crew cap per flight -- a create_assignment for a flight that already
\* has 2 x crew_required current assignments ends with an error and inserts
\* nothing, so after any sequence of create_assignment calls no flight has
\* more than 2 x crew_required current assignments.
CrewCap ==
    [][\A f \in Flights :
          /\ (/\ last'.op = "create"
              /\ last'.flight_id = f
              /\ Cardinality(find_by_flight_id(assignments, f)) >= crew_required[f] * 2)
                 => (last'.res \notin {"OK", "None"} /\ assignments' = assignments)
          /\ Cardinality(find_by_flight_id(assignments', f)) <= crew_required[f] * 2]_vars

\* a create was refused because the flight is at its cap
CrewCapWitness ==
    /\ last.op = "create"
    /\ last.res = "ValueError: crew limit"
    /\ Cardinality(find_by_flight_id(assignments, last.flight_id))
          = crew_required[last.flight_id] * 2

\* C27: in every state reached by create_assignment, confirm,
\* cancel_assignment and set_crew_availability calls, every crew member with
\* an ASSIGNED or CONFIRMED assignment has the availability flag set.
ActiveCrewAvailable ==
    \A i \in Rows : Active(i) => is_available[assignments[i].crew_member_id]

\* C28: in every state reached by create_assignment, auto_assign_crew and
\* cancel_flight calls, a flight whose status is CANCELLED has no ASSIGNED or
\* CONFIRMED assignment.
CancelledFlightHasNoCrew ==
    \A f \in Flights :
        flight_status[f] = "CANCELLED" => ActiveOnFlight(assignments, f) = {}

\* C29: the status of a flight changes only along SCHEDULED -> {DELAYED,
\* CANCELLED, COMPLETED}, DELAYED -> {SCHEDULED, CANCELLED, COMPLETED},
\* CANCELLED -> {SCHEDULED}; a COMPLETED flight keeps its status, and a call
\* that is rejected leaves the status as it was.
FlightStatusTransitions ==
    [][\A f \in Flights :
          /\ \/ flight_status'[f] = flight_status[f]
             \/ flight_status'[f] \in valid_transitions(flight_status[f])
          /\ (/\ last'.op \in {"flight_status", "cancel_flight", "update_flight"}
              /\ last'.flight_id = f
              /\ last'.res # "OK")
                 => flight_status'[f] = flight_status[f]]_vars

====
